---- MODULE Spec2Model ----
(***************************************************************************)
(* The articles search-index synchronisation of src/pages/search/images.tsx *)
(* (onIndexSetup, onFetchItemsToIndex, onIndexUpdate) as a state machine,   *)
(* together with its collaborators: the relational store, the dirty queue,  *)
(* the pending-deletion ledger, the index service and the update processor  *)
(* that drives a pass and keeps the watermark.                              *)
(***************************************************************************)
EXTENDS Integers, Sequences, FiniteSets, TLC

----------------------------------------------------------------------------
\* Bounds of the model.
MaxId == 2          \* article ids are 1..MaxId (autoincrement, never reused)
MaxTime == 2        \* the clock runs over 1..MaxTime
MaxPasses == 2      \* passes started in one behaviour
MaxRetries == 1     \* polls that may find a task pending before the timeout
MaxEnv == 2         \* writes of the upstream writers in one behaviour
MaxDocs == 60       \* page sizes tried for the document writer alone
MaxSetups == 3      \* calls of onIndexSetup tried for the index setup alone
MaxImage == 2       \* image ids are 0..MaxImage
MaxHistory == 3     \* browser history entries of the viewer's page

\* READ_BATCH_SIZE is 1000 in the source (images.tsx:573).  The page size is
\* scaled down so that a pass over MaxId articles reads more than one page.
READ_BATCH_SIZE == 1

DocumentBatchSize_PageSize == READ_BATCH_SIZE

MEILISEARCH_DOCUMENT_BATCH_SIZE == 25
INDEX_ID == "articles"
SWAP_INDEX_ID == "articles_NEW"

MaxRid == MaxId     \* dirty-queue rows inserted in one behaviour
NULL == 0           \* an absent watermark (lastUpdatedAt undefined)

Ids == 1..MaxId
IndexNames == {INDEX_ID, SWAP_INDEX_ID}

VARIABLES
  \* relational store
  article,          \* Ids -> row of the article table
  queue,            \* searchIndexUpdateQueue rows of type INDEX_ID: [rid, id]
  nextRid,          \* serial of the next dirty-queue row
  ledger,           \* ids with a pending-deletion row for INDEX_ID
  clock,            \* the wall clock
  lastUpdatedAt,    \* the stored watermark of the entity type (NULL: none)
  \* index service
  index,            \* IndexNames -> set of documents
  settings,         \* IndexNames -> the attribute lists of the index
  pending,          \* FIFO of enqueued tasks
  succeeded,        \* uids of tasks that ended in success
  failed,           \* uids of tasks that ended in failure
  nextUid,
  client,           \* the index-service client is configured
  \* calls of onIndexSetup
  settingsTasks,    \* settings tasks the latest call issued, in order
  setupCalls,       \* calls so far
  \* the running pass
  pc, passNo, indexName, ctxLastUpdatedAt, now,
  offset, queuedItems, indexReadyRecords, tasks, articlesTasks,
  retries, cleanupIds, cleanupTask,
  \* observations of the run (written, never read, by the program)
  envSteps,         \* upstream writes so far
  wmAtStart,        \* lastUpdatedAt when the pass started
  queueAtStart,     \* queue when the pass started
  liveAtStart,      \* index[INDEX_ID] when the pass started
  settledAtStart,   \* no task was pending when the pass started
  ridAtDrain,       \* nextRid when the pass read the dirty queue
  fetched,          \* pages read by the pass, in order
  submitted,        \* sub-batches submitted by the pass, in order
  passTasks,        \* uids of every document task the pass enqueued
  untouched,        \* ids whose row no writer touched since the pass started
  chg,              \* a writer changed store or queue since the pass started
  chgIdle,          \* a writer changed store or queue while no pass ran
  quietPrev,        \* previous pass committed, nothing changed since it started
  quietBetween,     \* previous pass committed, nothing changed since it ended
  rejected,         \* a step of the pass threw
  ledgerAtCleanup,  \* ledger when the cleanup of the pass read it
  \* the image viewer of the page
  activeImageId,    \* useState: the image shown (null: none)
  images,           \* useState: the list of images, records with an id
  history,          \* the imageId of the query of each browser history entry
  position,         \* the place in history of the current entry
  queryChanged      \* router.query changed and the effect on it has not run

storeVars == <<article, queue, nextRid, ledger, clock, lastUpdatedAt>>
serviceVars == <<index, settings, pending, succeeded, failed, nextUid>>
passVars == <<pc, passNo, indexName, ctxLastUpdatedAt, now, offset, queuedItems,
              indexReadyRecords, tasks, articlesTasks, retries, cleanupIds,
              cleanupTask>>
obsVars == <<envSteps, wmAtStart, queueAtStart, liveAtStart, settledAtStart,
             ridAtDrain, fetched, submitted, passTasks, untouched, chg, chgIdle,
             quietPrev, quietBetween, rejected, ledgerAtCleanup>>
setupVars == <<client, settingsTasks, setupCalls>>
viewerVars == <<activeImageId, images, history, position, queryChanged>>
vars == <<storeVars, serviceVars, setupVars, passVars, obsVars, viewerVars>>

\* null of the image viewer; image ids are numbers from 0 on.
null == -1

\* The query of a history entry without an imageId.
NoImageId == "undefined"

\* The viewer as mounted: no image shown, no image known, one history entry
\* whose query has no imageId.
NoViewer ==
  /\ activeImageId = null /\ images = <<>>
  /\ history = <<NoImageId>> /\ position = 1 /\ queryChanged = FALSE

----------------------------------------------------------------------------
\* Sequences and rows.

Range(s) == {s[k] : k \in DOMAIN s}

Min(a, b) == IF a <= b THEN a ELSE b

RECURSIVE Flatten(_)
Flatten(ss) == IF ss = <<>> THEN <<>> ELSE Head(ss) \o Flatten(Tail(ss))

\* The rows of a set of records with a field rid, by ascending rid.
RECURSIVE ByRid(_)
ByRid(rows) ==
  IF rows = {} THEN <<>>
  ELSE LET r == CHOOSE x \in rows : \A y \in rows : x.rid <= y.rid
       IN <<r>> \o ByRid(rows \ {r})

NoRow == [st |-> "free", publishedAt |-> FALSE, tosViolation |-> FALSE,
          createdAt |-> 0, updatedAt |-> 0, metrics |-> <<>>, tags |-> <<>>]
GoneRow == [NoRow EXCEPT !.st = "gone"]

Created == {i \in Ids : article[i].st # "free"}
Existing == {i \in Ids : article[i].st = "row"}

----------------------------------------------------------------------------
\* onFetchItemsToIndex and the filter onIndexUpdate builds for it.

QueuedIds_Reread == [k \in 1..Cardinality(queue) |-> ByRid(queue)[k].id]

\* queuedItems.map(({ id }) => id): the ids of the snapshot, duplicates kept.
QueuedIds == [k \in DOMAIN queuedItems |-> queuedItems[k].id]

\* The whereOr argument: undefined without a watermark, else the three
\* alternatives createdAt > lastUpdatedAt, updatedAt > lastUpdatedAt, id in ids.
WhereOr ==
  [undefined |-> ctxLastUpdatedAt = NULL, gt |-> ctxLastUpdatedAt, in |-> QueuedIds]

\* publishedAt: { not: null }, tosViolation: false
BaselineWhere(row) == row.publishedAt /\ ~row.tosViolation

WhereOrHolds_Gte(i, whereOr) ==
  \/ whereOr.undefined
  \/ article[i].createdAt >= whereOr.gt
  \/ article[i].updatedAt >= whereOr.gt
  \/ i \in Range(whereOr.in)

\* OR: whereOr (an undefined OR puts no condition on the row)
WhereOrHolds(i, whereOr) ==
  \/ whereOr.undefined
  \/ article[i].createdAt > whereOr.gt
  \/ article[i].updatedAt > whereOr.gt
  \/ i \in Range(whereOr.in)

ArticleWhere_DirtyBypass(i, whereOr) ==
  /\ article[i].st = "row"
  /\ \/ BaselineWhere(article[i]) /\ WhereOrHolds(i, whereOr)
     \/ ~whereOr.undefined /\ i \in Range(whereOr.in)

\* The where clause of db.article.findMany.
ArticleWhere(i, whereOr) ==
  /\ article[i].st = "row"
  /\ BaselineWhere(article[i])
  /\ WhereOrHolds(i, whereOr)

\* The counters selected from a metrics row.
MetricFields ==
  {"commentCount", "cryCount", "dislikeCount", "favoriteCount", "heartCount",
   "hideCount", "laughCount", "viewCount", "likeCount"}

AllTime == "AllTime"

\* metrics: { select: { commentCount: true, ... }, where: { timeframe: AllTime } }
SelectedMetrics(row) ==
  LET rows == SelectSeq(row.metrics, LAMBDA m : m.timeframe = AllTime)
  IN [k \in DOMAIN rows |-> [f \in MetricFields |-> rows[k][f]]]

\* {}: an object without fields.
EmptyObject == [f \in {} |-> 0]

\* metrics: { ...(articleRecord.metrics[0] || {}) }
FlattenMetrics(metrics) == IF Len(metrics) > 0 THEN metrics[1] ELSE EmptyObject

\* tags: tags.map((articleTag) => articleTag.tag.name)
FlattenTags(tags) == [k \in DOMAIN tags |-> tags[k].tag.name]

\* The record selected for a row and made index-ready.
IndexReadyRecord(i) ==
  [id |-> i, createdAt |-> article[i].createdAt, updatedAt |-> article[i].updatedAt,
   publishedAt |-> article[i].publishedAt, tosViolation |-> article[i].tosViolation,
   metrics |-> FlattenMetrics(SelectedMetrics(article[i])),
   tags |-> FlattenTags(article[i].tags)]

\* The ids matching the where clause, in table order.
MatchingIds(whereOr) ==
  SelectSeq([k \in 1..MaxId |-> k], LAMBDA i : ArticleWhere(i, whereOr))

\* findMany({ skip, take: READ_BATCH_SIZE, where }) followed by the map to
\* index-ready records.
OnFetchItemsToIndex(whereOr, skip) ==
  LET ids == MatchingIds(whereOr)
      last == Min(Len(ids), skip + READ_BATCH_SIZE)
  IN [k \in 1..(IF last > skip THEN last - skip ELSE 0) |->
        IndexReadyRecord(ids[skip + k])]

----------------------------------------------------------------------------
\* The document writer: updateDocumentsInBatches(documents, batchSize) cuts the
\* documents into consecutive slices of batchSize and submits one per slice.

RECURSIVE UpdateDocumentsInBatches(_, _)
UpdateDocumentsInBatches(docs, size) ==
  IF docs = <<>> THEN <<>>
  ELSE LET n == Min(size, Len(docs))
       IN <<SubSeq(docs, 1, n)>>
            \o UpdateDocumentsInBatches(SubSeq(docs, n + 1, Len(docs)), size)

\* The enqueued tasks of a sequence of sub-batches, uids from first on.
EnqueuedTasks(batches, indexUid, first) ==
  [k \in DOMAIN batches |->
     [uid |-> first + k - 1, indexUid |-> indexUid, type |-> "documentAdditionOrUpdate",
      docs |-> batches[k], ids |-> {}]]

----------------------------------------------------------------------------
WaitResult_NotAwaited(uids, r) ==
  IF uids \cap failed # {} THEN "failed" ELSE "succeeded"

\* The task waiter: one poll of waitForTasksWithRetries(uids) after r retries.
WaitResult(uids, r) ==
  IF uids \cap failed # {} THEN "failed"
  ELSE IF uids \subseteq succeeded THEN "succeeded"
  ELSE IF r < MaxRetries THEN "retry"
  ELSE "timeout"

WaitedTaskUids_LastPage == Range(tasks)

\* articlesTasks.map((task) => task.taskUid)
WaitedTaskUids == Range(articlesTasks)

\* An await that rejects is not caught in onIndexUpdate: the pass fails.
\* Where the processor continues when onIndexUpdate returns.
Returned == IF indexName = SWAP_INDEX_ID THEN "SWAP" ELSE "COMMIT"

OnRejected_Swallow == Returned

OnRejected == "FAILED"

----------------------------------------------------------------------------
\* The attribute lists onIndexSetup gives the index, and the lists of an index
\* the service has just created.
searchableAttributes == <<"title", "content", "tags", "user.username">>

sortableAttributes ==
  <<"createdAt", "metrics.commentCount", "metrics.favoriteCount", "metrics.viewCount">>

filterableAttributes == <<"tags">>

DesiredSettings ==
  [searchableAttributes |-> searchableAttributes,
   sortableAttributes |-> sortableAttributes,
   filterableAttributes |-> filterableAttributes]

DefaultSettings ==
  [searchableAttributes |-> <<"*">>, sortableAttributes |-> <<>>,
   filterableAttributes |-> <<>>]

----------------------------------------------------------------------------
\* The initial state: a store holding one published article written at time 1,
\* an empty index service, no pass run yet.

FirstRow == [st |-> "row", publishedAt |-> TRUE, tosViolation |-> FALSE,
             createdAt |-> 1, updatedAt |-> 1, metrics |-> <<>>, tags |-> <<>>]

Init ==
  /\ article = [i \in Ids |-> IF i = 1 THEN FirstRow ELSE NoRow]
  /\ queue = {} /\ nextRid = 1 /\ ledger = {} /\ clock = 1
  /\ lastUpdatedAt = NULL
  /\ index = [n \in IndexNames |-> {}]
  /\ settings = [n \in IndexNames |-> DefaultSettings]
  /\ pending = <<>> /\ succeeded = {} /\ failed = {} /\ nextUid = 1
  /\ client = TRUE /\ settingsTasks = <<>> /\ setupCalls = 0
  /\ NoViewer
  /\ pc = "idle" /\ passNo = 0 /\ indexName = INDEX_ID
  /\ ctxLastUpdatedAt = NULL /\ now = 0 /\ offset = 0
  /\ queuedItems = <<>> /\ indexReadyRecords = <<>> /\ tasks = <<>>
  /\ articlesTasks = <<>> /\ retries = 0 /\ cleanupIds = {} /\ cleanupTask = 0
  /\ envSteps = 0 /\ wmAtStart = NULL /\ queueAtStart = {} /\ liveAtStart = {}
  /\ settledAtStart = TRUE /\ ridAtDrain = 0 /\ fetched = <<>> /\ submitted = <<>>
  /\ passTasks = {} /\ untouched = {} /\ chg = FALSE /\ chgIdle = FALSE
  /\ quietPrev = FALSE /\ quietBetween = FALSE /\ rejected = FALSE
  /\ ledgerAtCleanup = {}

Idle == pc \in {"idle", "DONE", "FAILED"}

----------------------------------------------------------------------------
\* The upstream writers and the clock.

\* What a write to the rows of the ids in S (or to the queue) leaves behind in
\* the observations.
Written(S) ==
  /\ envSteps < MaxEnv
  /\ envSteps' = envSteps + 1
  /\ untouched' = untouched \ S
  /\ chg' = TRUE
  /\ chgIdle' = (chgIdle \/ Idle)
  /\ UNCHANGED <<wmAtStart, queueAtStart, liveAtStart, settledAtStart, ridAtDrain,
                 fetched, submitted, passTasks, quietPrev, quietBetween, rejected,
                 ledgerAtCleanup>>

Tick ==
  /\ clock < MaxTime
  /\ clock' = clock + 1
  /\ UNCHANGED <<article, queue, nextRid, ledger, lastUpdatedAt, serviceVars,
                 passVars, setupVars, viewerVars, obsVars>>

CreateArticle(published, tos) ==
  /\ \E i \in Ids :
       /\ article[i].st = "free"
       /\ \A j \in Ids : j < i => article[j].st # "free"
       /\ article' = [article EXCEPT ![i] =
            [st |-> "row", publishedAt |-> published, tosViolation |-> tos,
             createdAt |-> clock, updatedAt |-> clock, metrics |-> <<>>,
             tags |-> <<>>]]
       /\ Written({i})
  /\ UNCHANGED <<queue, nextRid, ledger, clock, lastUpdatedAt, serviceVars, passVars, setupVars, viewerVars>>

UpdateArticle(i, published, tos) ==
  /\ article[i].st = "row"
  /\ article' = [article EXCEPT ![i] =
       [@ EXCEPT !.publishedAt = published, !.tosViolation = tos,
                 !.updatedAt = clock]]
  /\ article' # article
  /\ Written({i})
  /\ UNCHANGED <<queue, nextRid, ledger, clock, lastUpdatedAt, serviceVars, passVars, setupVars, viewerVars>>

DeleteArticle(i) ==
  /\ article[i].st = "row"
  /\ article' = [article EXCEPT ![i] = GoneRow]
  /\ Written({i})
  /\ UNCHANGED <<queue, nextRid, ledger, clock, lastUpdatedAt, serviceVars, passVars, setupVars, viewerVars>>

\* A mutation hook marks article i dirty.
EnqueueUpdate(i) ==
  /\ i \in Created
  /\ nextRid <= MaxRid
  /\ queue' = queue \cup {[rid |-> nextRid, id |-> i]}
  /\ nextRid' = nextRid + 1
  /\ Written({})
  /\ UNCHANGED <<article, ledger, clock, lastUpdatedAt, serviceVars, passVars, setupVars, viewerVars>>

\* A mutation hook records article i as pending deletion from INDEX_ID.
EnqueueDelete(i) ==
  /\ i \in Created
  /\ i \notin ledger
  /\ ledger' = ledger \cup {i}
  /\ Written({})
  /\ UNCHANGED <<article, queue, nextRid, clock, lastUpdatedAt, serviceVars, passVars, setupVars, viewerVars>>

----------------------------------------------------------------------------
\* The index service works off its task queue in order.

DocIds(docs) == {d.id : d \in docs}

AppliedSettings(task) ==
  IF task.type = "settingsUpdate"
  THEN [settings EXCEPT ![task.indexUid][task.attr] = task.value]
  ELSE settings

Applied(task) ==
  IF task.type = "settingsUpdate" THEN index
  ELSE IF task.type = "documentDeletion"
  THEN [index EXCEPT ![task.indexUid] = {d \in @ : d.id \notin task.ids}]
  ELSE [index EXCEPT ![task.indexUid] =
          {d \in @ : d.id \notin DocIds(Range(task.docs))} \cup Range(task.docs)]

ProcessTask(ok) ==
  /\ pending # <<>>
  /\ pending' = Tail(pending)
  /\ IF ok
     THEN /\ index' = Applied(Head(pending))
          /\ settings' = AppliedSettings(Head(pending))
          /\ succeeded' = succeeded \cup {Head(pending).uid}
          /\ UNCHANGED failed
     ELSE /\ failed' = failed \cup {Head(pending).uid}
          /\ UNCHANGED <<index, settings, succeeded>>
  /\ UNCHANGED <<nextUid, storeVars, passVars, setupVars, viewerVars, obsVars>>

----------------------------------------------------------------------------
\* The update processor starts a pass (one pass at a time per entity type).

StartPass(name, watermark) ==
  /\ Idle
  /\ passNo < MaxPasses
  /\ passNo' = passNo + 1
  /\ pc' = "SETUP"
  /\ indexName' = name
  /\ ctxLastUpdatedAt' = watermark
  /\ now' = clock
  /\ offset' = 0 /\ queuedItems' = <<>> /\ indexReadyRecords' = <<>>
  /\ tasks' = <<>> /\ articlesTasks' = <<>> /\ retries' = 0
  /\ cleanupIds' = {} /\ cleanupTask' = 0
  /\ wmAtStart' = lastUpdatedAt
  /\ queueAtStart' = queue
  /\ liveAtStart' = index[INDEX_ID]
  /\ settledAtStart' = (pending = <<>>)
  /\ ridAtDrain' = 0 /\ fetched' = <<>> /\ submitted' = <<>> /\ passTasks' = {}
  /\ untouched' = Existing
  /\ quietPrev' = (pc = "DONE" /\ indexName = INDEX_ID /\ ~chg)
  /\ quietBetween' = (pc = "DONE" /\ indexName = INDEX_ID /\ ~chgIdle)
  /\ chg' = FALSE /\ chgIdle' = FALSE /\ rejected' = FALSE
  /\ ledgerAtCleanup' = {}
  /\ UNCHANGED <<storeVars, serviceVars, setupVars, viewerVars, envSteps>>

\* Incremental mode: the run context carries the stored watermark.
StartUpdate == StartPass(INDEX_ID, lastUpdatedAt)

\* Full rebuild: the run context names the shadow index and no watermark.
StartReset == StartPass(SWAP_INDEX_ID, NULL)

\* A step of the pass throws.
Reject ==
  /\ pc' = OnRejected
  /\ rejected' = TRUE

passLocals == <<passNo, indexName, ctxLastUpdatedAt, now>>
obsRest == <<envSteps, wmAtStart, queueAtStart, liveAtStart, settledAtStart,
             untouched, chg, chgIdle, quietPrev, quietBetween>>

\* client.index(indexName): the index the documents of a page are written to.
TargetIndex_Live == INDEX_ID

TargetIndex == indexName

\* The indexName argument of the cleanup: always INDEX_ID, not the index name
\* of the run context.
CleanupIndex_RunContext == indexName

CleanupIndex == INDEX_ID

\* The pending-deletion rows recorded for an index name.
LedgerRows(name) == IF name = INDEX_ID THEN ledger ELSE {}

AfterSetup_SkipCleanup == "DRAIN"

\* await onIndexSetup(...) is followed by await onSearchIndexDocumentsCleanup(...).
AfterSetup == "CLEANUP"

AfterFetch_SkipSubmit(records) == IF records = <<>> THEN "WAIT" ELSE "FETCH"

\* if (indexReadyRecords.length === 0) break; else the page is submitted.
AfterFetch(records) == IF records = <<>> THEN "WAIT" ELSE "SUBMIT"

----------------------------------------------------------------------------
\* onIndexUpdate, one action per awaited call.

OnNoClient_Throws == OnRejected

\* if (!client) return; onIndexUpdate returns as it does after its last await.
OnNoClient == Returned

\* if (!client) return; else await onIndexSetup({ indexName }): the index is
\* got or created and is given the desired attribute lists.  The pass awaits
\* none of the settings tasks and reads no setting; here they take effect at
\* once, and IndexSetup below has the tasks one by one.
OnIndexSetup(ok) ==
  /\ pc = "SETUP"
  /\ IF ~client
     THEN /\ pc' = OnNoClient
          /\ UNCHANGED <<settings, rejected>>
     ELSE IF ok
     THEN /\ settings' = [settings EXCEPT ![indexName] = DesiredSettings]
          /\ pc' = AfterSetup
          /\ UNCHANGED rejected
     ELSE /\ Reject
          /\ UNCHANGED settings
  /\ UNCHANGED <<storeVars, index, pending, succeeded, failed, nextUid, passLocals, setupVars, viewerVars,
                 offset, queuedItems, indexReadyRecords, tasks, articlesTasks,
                 retries, cleanupIds, cleanupTask, obsRest, ledgerAtCleanup,
                 ridAtDrain, fetched, submitted, passTasks>>

\* await onSearchIndexDocumentsCleanup({ db, indexName: INDEX_ID }), first half:
\* the ledger rows of the index are read and their documents deleted by id.
CleanupSubmit(ok) ==
  /\ pc = "CLEANUP"
  /\ ledgerAtCleanup' = ledger
  /\ IF ~ok
     THEN /\ Reject
          /\ UNCHANGED <<pending, nextUid, cleanupIds, cleanupTask>>
     ELSE /\ cleanupIds' = LedgerRows(CleanupIndex)
          /\ UNCHANGED rejected
          /\ IF cleanupIds' = {}
             THEN /\ pc' = "DRAIN"
                  /\ UNCHANGED <<pending, nextUid, cleanupTask>>
             ELSE /\ pending' = Append(pending,
                       [uid |-> nextUid, indexUid |-> CleanupIndex,
                        type |-> "documentDeletion", docs |-> <<>>,
                        ids |-> cleanupIds'])
                  /\ cleanupTask' = nextUid
                  /\ nextUid' = nextUid + 1
                  /\ pc' = "CLEANUP_WAIT"
  /\ UNCHANGED <<storeVars, index, settings, succeeded, failed, passLocals, setupVars, viewerVars, offset,
                 queuedItems, indexReadyRecords, tasks, articlesTasks, retries,
                 obsRest, ridAtDrain, fetched, submitted, passTasks>>

\* Second half: the deletion task is awaited and only then are the ledger rows
\* that were read removed.
CleanupAwait ==
  /\ pc = "CLEANUP_WAIT"
  /\ LET res == WaitResult({cleanupTask}, retries) IN
       /\ IF res = "succeeded"
          THEN /\ ledger' = ledger \ cleanupIds
               /\ pc' = "DRAIN" /\ retries' = 0
               /\ UNCHANGED rejected
          ELSE IF res = "retry"
          THEN /\ retries' = retries + 1
               /\ UNCHANGED <<ledger, pc, rejected>>
          ELSE /\ Reject
               /\ UNCHANGED <<ledger, retries>>
  /\ UNCHANGED <<article, queue, nextRid, clock, lastUpdatedAt, serviceVars,
                 passLocals, setupVars, viewerVars, offset, queuedItems, indexReadyRecords, tasks,
                 articlesTasks, cleanupIds, cleanupTask, obsRest, ledgerAtCleanup, ridAtDrain,
                 fetched, submitted, passTasks>>

\* const queuedItems = await db.searchIndexUpdateQueue.findMany(...)
ReadQueue(ok) ==
  /\ pc = "DRAIN"
  /\ IF ok
     THEN /\ queuedItems' = ByRid(queue)
          /\ ridAtDrain' = nextRid
          /\ retries' = 0
          /\ pc' = "FETCH"
          /\ UNCHANGED rejected
     ELSE /\ Reject
          /\ UNCHANGED <<queuedItems, ridAtDrain, retries>>
  /\ UNCHANGED <<storeVars, serviceVars, passLocals, setupVars, viewerVars, offset, indexReadyRecords,
                 tasks, articlesTasks, cleanupIds, cleanupTask, obsRest, ledgerAtCleanup, fetched,
                 submitted, passTasks>>

\* const indexReadyRecords = await onFetchItemsToIndex({ skip: offset, whereOr });
\* if (indexReadyRecords.length === 0) break;
FetchPage(ok) ==
  /\ pc = "FETCH"
  /\ IF ok
     THEN /\ indexReadyRecords' = OnFetchItemsToIndex(WhereOr, offset)
          /\ fetched' = Append(fetched, indexReadyRecords')
          /\ pc' = AfterFetch(indexReadyRecords')
          /\ UNCHANGED rejected
     ELSE /\ Reject
          /\ UNCHANGED <<indexReadyRecords, fetched>>
  /\ UNCHANGED <<storeVars, serviceVars, passLocals, setupVars, viewerVars, offset, queuedItems, tasks,
                 articlesTasks, retries, cleanupIds, cleanupTask, obsRest, ledgerAtCleanup,
                 ridAtDrain, submitted, passTasks>>

\* const tasks = await client.index(indexName).updateDocumentsInBatches(
\*   indexReadyRecords, MEILISEARCH_DOCUMENT_BATCH_SIZE);
\* articlesTasks.push(...tasks); offset += indexReadyRecords.length;
\* The sub-batches are sent one after the other: when sending sub-batch k + 1
\* throws, the first k are enqueued and nothing is pushed to articlesTasks.
SubmitPage ==
  /\ pc = "SUBMIT"
  /\ LET batches ==
           UpdateDocumentsInBatches(indexReadyRecords, MEILISEARCH_DOCUMENT_BATCH_SIZE)
     IN \E k \in 0..Len(batches) :
          LET sent == SubSeq(batches, 1, k)
              enq == EnqueuedTasks(sent, TargetIndex, nextUid)
          IN /\ pending' = pending \o enq
             /\ nextUid' = nextUid + k
             /\ submitted' = submitted \o sent
             /\ passTasks' = passTasks \cup {enq[j].uid : j \in DOMAIN enq}
             /\ IF k = Len(batches)
                THEN /\ tasks' = [j \in DOMAIN enq |-> enq[j].uid]
                     /\ articlesTasks' = articlesTasks \o tasks'
                     /\ offset' = offset + Len(indexReadyRecords)
                     /\ pc' = "FETCH"
                     /\ UNCHANGED rejected
                ELSE /\ Reject
                     /\ UNCHANGED <<tasks, articlesTasks, offset>>
  /\ UNCHANGED <<storeVars, index, settings, succeeded, failed, passLocals, setupVars, viewerVars,
                 queuedItems, indexReadyRecords, retries, cleanupIds, cleanupTask,
                 obsRest, ledgerAtCleanup, ridAtDrain, fetched>>

\* await waitForTasksWithRetries(articlesTasks.map((task) => task.taskUid)),
\* one poll per step; when it resolves onIndexUpdate returns.
AwaitTasks ==
  /\ pc = "WAIT"
  /\ LET res == WaitResult(WaitedTaskUids, retries) IN
       /\ IF res = "succeeded"
          THEN /\ pc' = Returned
               /\ UNCHANGED <<retries, rejected>>
          ELSE IF res = "retry"
          THEN /\ retries' = retries + 1
               /\ UNCHANGED <<pc, rejected>>
          ELSE /\ Reject
               /\ UNCHANGED retries
  /\ UNCHANGED <<storeVars, serviceVars, passLocals, setupVars, viewerVars, offset, queuedItems,
                 indexReadyRecords, tasks, articlesTasks, cleanupIds, cleanupTask,
                 obsRest, ledgerAtCleanup, ridAtDrain, fetched, submitted, passTasks>>

----------------------------------------------------------------------------
\* The update processor after onIndexUpdate has returned.

\* Full rebuild only: the shadow index is promoted, atomically.
Swap(ok) ==
  /\ pc = "SWAP"
  /\ IF ok
     THEN /\ index' = [index EXCEPT ![INDEX_ID] = index[SWAP_INDEX_ID],
                                    ![SWAP_INDEX_ID] = index[INDEX_ID]]
          /\ settings' = [settings EXCEPT ![INDEX_ID] = settings[SWAP_INDEX_ID],
                                          ![SWAP_INDEX_ID] = settings[INDEX_ID]]
          /\ pc' = "COMMIT"
          /\ UNCHANGED rejected
     ELSE /\ pc' = "FAILED"
          /\ rejected' = TRUE
          /\ UNCHANGED <<index, settings>>
  /\ UNCHANGED <<storeVars, pending, succeeded, failed, nextUid, passLocals, setupVars, viewerVars, offset,
                 queuedItems, indexReadyRecords, tasks, articlesTasks, retries,
                 cleanupIds, cleanupTask, obsRest, ledgerAtCleanup, ridAtDrain, fetched, submitted,
                 passTasks>>

\* The watermark becomes the time taken when the pass started and the
\* dirty-queue rows the pass consumed are deleted.
Commit ==
  /\ pc = "COMMIT"
  /\ lastUpdatedAt' = now
  /\ queue' = queue \ Range(queuedItems)
  /\ pc' = "DONE"
  /\ UNCHANGED <<article, nextRid, ledger, clock, serviceVars, passLocals, setupVars, viewerVars, offset,
                 queuedItems, indexReadyRecords, tasks, articlesTasks, retries,
                 cleanupIds, cleanupTask, obsVars>>

\* Steps of a pass that come before the promotion of the shadow index.
BeforePromotion ==
  {"SETUP", "CLEANUP", "CLEANUP_WAIT", "DRAIN", "FETCH", "SUBMIT", "WAIT", "SWAP"}

----------------------------------------------------------------------------
Next ==
  \/ Tick
  \/ \E p, t \in BOOLEAN : CreateArticle(p, t)
  \/ \E i \in Ids, p, t \in BOOLEAN : UpdateArticle(i, p, t)
  \/ \E i \in Ids : DeleteArticle(i)
  \/ \E i \in Ids : EnqueueUpdate(i)
  \/ \E i \in Ids : EnqueueDelete(i)
  \/ \E ok \in BOOLEAN : ProcessTask(ok)
  \/ StartUpdate
  \/ StartReset
  \/ \E ok \in BOOLEAN : OnIndexSetup(ok)
  \/ \E ok \in BOOLEAN : CleanupSubmit(ok)
  \/ CleanupAwait
  \/ \E ok \in BOOLEAN : ReadQueue(ok)
  \/ \E ok \in BOOLEAN : FetchPage(ok)
  \/ SubmitPage
  \/ AwaitTasks
  \/ \E ok \in BOOLEAN : Swap(ok)
  \/ Commit

Spec == Init /\ [][Next]_vars

----------------------------------------------------------------------------
\* The document writer alone: a page of 1..MaxDocs index-ready records is
\* about to be submitted.

PageOf(n) ==
  [k \in 1..n |-> [id |-> k, createdAt |-> 1, updatedAt |-> 1,
                   publishedAt |-> TRUE, tosViolation |-> FALSE,
                   metrics |-> EmptyObject, tags |-> <<>>]]

InitBatch ==
  /\ article = [i \in Ids |-> IF i = 1 THEN FirstRow ELSE NoRow]
  /\ queue = {} /\ nextRid = 1 /\ ledger = {} /\ clock = 1
  /\ lastUpdatedAt = NULL
  /\ index = [n \in IndexNames |-> {}]
  /\ settings = [n \in IndexNames |->
                   IF n = INDEX_ID THEN DesiredSettings ELSE DefaultSettings]
  /\ pending = <<>> /\ succeeded = {} /\ failed = {} /\ nextUid = 1
  /\ client = TRUE /\ settingsTasks = <<>> /\ setupCalls = 0
  /\ NoViewer
  /\ pc = "SUBMIT" /\ passNo = 1 /\ indexName = INDEX_ID
  /\ ctxLastUpdatedAt = NULL /\ now = 1 /\ offset = 0
  /\ queuedItems = <<>> /\ tasks = <<>>
  /\ \E n \in 1..MaxDocs : indexReadyRecords = PageOf(n)
  /\ articlesTasks = <<>> /\ retries = 0 /\ cleanupIds = {} /\ cleanupTask = 0
  /\ envSteps = 0 /\ wmAtStart = NULL /\ queueAtStart = {} /\ liveAtStart = {}
  /\ settledAtStart = TRUE /\ ridAtDrain = 1 /\ fetched = <<indexReadyRecords>>
  /\ submitted = <<>> /\ passTasks = {} /\ untouched = {} /\ chg = FALSE
  /\ chgIdle = FALSE /\ quietPrev = FALSE /\ quietBetween = FALSE
  /\ rejected = FALSE /\ ledgerAtCleanup = {}

NextBatch == SubmitPage

SpecBatch == InitBatch /\ [][NextBatch]_vars

----------------------------------------------------------------------------
\* The index setup alone: onIndexSetup is called, by a pass or by the update
\* processor (it is handed over as a callback), and the service works off the
\* settings tasks.

\* The updates one call issues for an index with the lists current:
\* updateSearchableAttributes and updateSortableAttributes whatever the lists
\* are, updateFilterableAttributes when the desired list, sorted (it has one
\* element), is not the current one.
SettingsUpdates(current) ==
  <<[attr |-> "searchableAttributes", value |-> searchableAttributes],
    [attr |-> "sortableAttributes", value |-> sortableAttributes]>>
  \o IF filterableAttributes # current.filterableAttributes
     THEN <<[attr |-> "filterableAttributes", value |-> filterableAttributes]>>
     ELSE <<>>

\* The enqueued tasks of a sequence of updates, uids from first on.
SettingsTasks(updates, indexUid, first) ==
  [k \in DOMAIN updates |->
     [uid |-> first + k - 1, indexUid |-> indexUid, type |-> "settingsUpdate",
      attr |-> updates[k].attr, value |-> updates[k].value]]

\* onIndexSetup({ indexName: name }); got: getOrCreateIndex returned an index.
IndexSetup(name, got) ==
  /\ setupCalls < MaxSetups
  /\ setupCalls' = setupCalls + 1
  /\ IF ~client \/ ~got
     THEN /\ settingsTasks' = <<>>
          /\ UNCHANGED <<pending, nextUid>>
     ELSE /\ settingsTasks' =
               SettingsTasks(SettingsUpdates(settings[name]), name, nextUid)
          /\ pending' = pending \o settingsTasks'
          /\ nextUid' = nextUid + Len(settingsTasks')
  /\ UNCHANGED <<storeVars, index, settings, succeeded, failed, client, passVars,
                 viewerVars,
                 obsVars>>

\* The attribute lists an index may have when onIndexSetup is called.
SomeSettings ==
  {DefaultSettings, DesiredSettings,
   [DesiredSettings EXCEPT !.filterableAttributes = <<>>],
   [DefaultSettings EXCEPT !.filterableAttributes = filterableAttributes]}

\* No pass has run and none runs.
NoPass ==
  /\ pc = "idle" /\ passNo = 0 /\ indexName = INDEX_ID
  /\ ctxLastUpdatedAt = NULL /\ now = 0 /\ offset = 0
  /\ queuedItems = <<>> /\ indexReadyRecords = <<>> /\ tasks = <<>>
  /\ articlesTasks = <<>> /\ retries = 0 /\ cleanupIds = {} /\ cleanupTask = 0
  /\ envSteps = 0 /\ wmAtStart = NULL /\ queueAtStart = {} /\ liveAtStart = {}
  /\ settledAtStart = TRUE /\ ridAtDrain = 0 /\ fetched = <<>> /\ submitted = <<>>
  /\ passTasks = {} /\ untouched = {} /\ chg = FALSE /\ chgIdle = FALSE
  /\ quietPrev = FALSE /\ quietBetween = FALSE /\ rejected = FALSE
  /\ ledgerAtCleanup = {}

InitSetup ==
  /\ article = [i \in Ids |-> IF i = 1 THEN FirstRow ELSE NoRow]
  /\ queue = {} /\ nextRid = 1 /\ ledger = {} /\ clock = 1
  /\ lastUpdatedAt = NULL
  /\ index = [n \in IndexNames |-> {}]
  /\ settings \in [IndexNames -> SomeSettings]
  /\ pending = <<>> /\ succeeded = {} /\ failed = {} /\ nextUid = 1
  /\ client = TRUE /\ settingsTasks = <<>> /\ setupCalls = 0
  /\ NoViewer
  /\ NoPass

NextSetup ==
  \/ \E name \in IndexNames, got \in BOOLEAN : IndexSetup(name, got)
  \/ \E ok \in BOOLEAN : ProcessTask(ok)

SpecSetup == InitSetup /\ [][NextSetup]_vars

----------------------------------------------------------------------------
\* The fetcher alone: a pass without a watermark reads and submits the pages of
\* a store of published articles with their metrics rows and tags; no writer
\* and no service step.

\* A row of the metrics sub-collection of an article.
MetricsRow(timeframe, comments, views) ==
  [f \in MetricFields \cup {"timeframe"} |->
     IF f = "timeframe" THEN timeframe
     ELSE IF f = "commentCount" THEN comments
     ELSE IF f = "viewCount" THEN views
     ELSE 0]

SomeMetrics ==
  {<<>>,
   <<MetricsRow("Day", 1, 2)>>,
   <<MetricsRow(AllTime, 0, 0)>>,
   <<MetricsRow(AllTime, 1, 2)>>,
   <<MetricsRow("Day", 1, 1), MetricsRow(AllTime, 2, 1)>>,
   <<MetricsRow(AllTime, 2, 1), MetricsRow("Day", 1, 1)>>}

\* A row of the tags relation of an article.
ArticleTag(name) == [tag |-> [name |-> name]]

SomeTags ==
  {<<>>, <<ArticleTag("a")>>, <<ArticleTag("a"), ArticleTag("b")>>,
   <<ArticleTag("b"), ArticleTag("a")>>}

InitFetch ==
  /\ article \in [Ids -> {[FirstRow EXCEPT !.metrics = m, !.tags = t] :
                            m \in SomeMetrics, t \in SomeTags}]
  /\ queue = {} /\ nextRid = 1 /\ ledger = {} /\ clock = 1
  /\ lastUpdatedAt = NULL
  /\ index = [n \in IndexNames |-> {}]
  /\ settings = [n \in IndexNames |-> DesiredSettings]
  /\ pending = <<>> /\ succeeded = {} /\ failed = {} /\ nextUid = 1
  /\ client = TRUE /\ settingsTasks = <<>> /\ setupCalls = 0
  /\ NoViewer
  /\ pc = "FETCH" /\ passNo = 1 /\ indexName = INDEX_ID
  /\ ctxLastUpdatedAt = NULL /\ now = 1 /\ offset = 0
  /\ queuedItems = <<>> /\ indexReadyRecords = <<>> /\ tasks = <<>>
  /\ articlesTasks = <<>> /\ retries = 0 /\ cleanupIds = {} /\ cleanupTask = 0
  /\ envSteps = 0 /\ wmAtStart = NULL /\ queueAtStart = {} /\ liveAtStart = {}
  /\ settledAtStart = TRUE /\ ridAtDrain = 1 /\ fetched = <<>> /\ submitted = <<>>
  /\ passTasks = {} /\ untouched = Ids /\ chg = FALSE /\ chgIdle = FALSE
  /\ quietPrev = FALSE /\ quietBetween = FALSE /\ rejected = FALSE
  /\ ledgerAtCleanup = {}

NextFetch ==
  \/ \E ok \in BOOLEAN : FetchPage(ok)
  \/ SubmitPage

SpecFetch == InitFetch /\ [][NextFetch]_vars

----------------------------------------------------------------------------
\* Passes over a store no writer changes: the articles, the dirty queue, the
\* ledger and the clock stay as they are, the processor starts passes and the
\* index service works off its tasks or does not.

SomeRows ==
  {FirstRow, [FirstRow EXCEPT !.publishedAt = FALSE],
   [FirstRow EXCEPT !.createdAt = 2, !.updatedAt = 2]}

SomeQueues == {{}, {[rid |-> 1, id |-> 1]}, {[rid |-> 1, id |-> 2], [rid |-> 2, id |-> 2]}}

InitQuiet ==
  /\ article \in [Ids -> SomeRows]
  /\ queue \in SomeQueues /\ nextRid = 3
  /\ ledger \in {{}, {1}} /\ clock = 2
  /\ lastUpdatedAt \in {NULL, 1}
  /\ index = [n \in IndexNames |-> {}]
  /\ settings = [n \in IndexNames |-> DefaultSettings]
  /\ pending = <<>> /\ succeeded = {} /\ failed = {} /\ nextUid = 1
  /\ client = TRUE /\ settingsTasks = <<>> /\ setupCalls = 0
  /\ NoViewer
  /\ NoPass

\* A step of the running pass: the continuation of onIndexUpdate, or of the
\* processor after it, once the awaited call has settled.
PassStep ==
  \/ \E ok \in BOOLEAN : OnIndexSetup(ok)
  \/ \E ok \in BOOLEAN : CleanupSubmit(ok)
  \/ CleanupAwait
  \/ \E ok \in BOOLEAN : ReadQueue(ok)
  \/ \E ok \in BOOLEAN : FetchPage(ok)
  \/ SubmitPage
  \/ AwaitTasks
  \/ \E ok \in BOOLEAN : Swap(ok)
  \/ Commit

NextQuiet ==
  \/ StartUpdate
  \/ StartReset
  \/ PassStep
  \/ \E ok \in BOOLEAN : ProcessTask(ok)

\* Every awaited call of a pass settles, so the pass takes its next step; the
\* index service is not required to finish any task.
SpecQuiet == InitQuiet /\ [][NextQuiet]_vars /\ WF_vars(PassStep)

----------------------------------------------------------------------------
\* The deployment without an index service: the client is not configured, the
\* writers write, the processor starts passes and calls onIndexSetup.

InitNoClient ==
  /\ article = [i \in Ids |-> IF i = 1 THEN FirstRow ELSE NoRow]
  /\ queue = {} /\ nextRid = 1 /\ ledger = {} /\ clock = 1
  /\ lastUpdatedAt = NULL
  /\ index = [n \in IndexNames |-> {}]
  /\ settings = [n \in IndexNames |-> DefaultSettings]
  /\ pending = <<>> /\ succeeded = {} /\ failed = {} /\ nextUid = 1
  /\ client = FALSE /\ settingsTasks = <<>> /\ setupCalls = 0
  /\ NoViewer
  /\ NoPass

NextNoClient ==
  \/ Tick
  \/ \E p, t \in BOOLEAN : CreateArticle(p, t)
  \/ \E i \in Ids, p, t \in BOOLEAN : UpdateArticle(i, p, t)
  \/ \E i \in Ids : DeleteArticle(i)
  \/ \E i \in Ids : EnqueueUpdate(i)
  \/ \E i \in Ids : EnqueueDelete(i)
  \/ StartUpdate
  \/ StartReset
  \/ \E name \in IndexNames, got \in BOOLEAN : IndexSetup(name, got)
  \/ \E ok \in BOOLEAN : OnIndexSetup(ok)
  \/ \E ok \in BOOLEAN : Swap(ok)
  \/ Commit

SpecNoClient == InitNoClient /\ [][NextNoClient]_vars

----------------------------------------------------------------------------
\* The image viewer: its two states, the router's history, the memoised next
\* and previous ids, the handlers and the effect on router.query.

ImageIds == 0..MaxImage

\* !x for a number or null.
Falsy(x) == x = null \/ x = 0

\* images.findIndex((image) => image.id === id): from 0, -1 when none.
FindIndex(list, id) ==
  IF \E k \in DOMAIN list : list[k].id = id
  THEN (CHOOSE k \in DOMAIN list :
          list[k].id = id /\ \A j \in DOMAIN list : list[j].id = id => k <= j) - 1
  ELSE -1

\* list[k]?.id ?? null, k counted from 0.
IdAt(list, k) == IF k >= 0 /\ k < Len(list) THEN list[k + 1].id ELSE null

NextImageId_Wrap ==
  IF Falsy(activeImageId) \/ FindIndex(images, activeImageId) = -1 THEN null
  ELSE IdAt(images, (FindIndex(images, activeImageId) + 1) % Len(images))

\* const nextImageId = useMemo(..., [images, activeImageId])
NextImageId ==
  IF Falsy(activeImageId) THEN null
  ELSE LET found == FindIndex(images, activeImageId)
       IN IF found = -1 THEN null ELSE IdAt(images, found + 1)

\* const prevImageId = useMemo(..., [images, activeImageId])
PrevImageId ==
  IF Falsy(activeImageId) THEN null
  ELSE LET found == FindIndex(images, activeImageId)
       IN IF found = -1 THEN null ELSE IdAt(images, found - 1)

\* imageViewerQueryParams.safeParse(router.query) and the test on its result:
\* the number the imageId of the query is coerced to, null when there is no
\* imageId, when it is not a number or when it is 0.
ParsedImageId(q) ==
  IF q # NoImageId /\ \E n \in ImageIds : ToString(n) = q /\ ~Falsy(n)
  THEN CHOOSE n \in ImageIds : ToString(n) = q
  ELSE null

\* router.push({ query: { ...router.query, imageId: q } }, undefined, { shallow })
RouterPush(q) ==
  /\ position < MaxHistory
  /\ history' = Append(SubSeq(history, 1, position), q)
  /\ position' = position + 1
  /\ queryChanged' = TRUE

\* router.replace({ query: { ...router.query, imageId: q } }, undefined, { shallow })
RouterReplace(q) ==
  /\ history' = [history EXCEPT ![position] = q]
  /\ position' = position
  /\ queryChanged' = TRUE

OnSetImage(imageId) ==
  /\ IF Falsy(imageId)
     THEN UNCHANGED <<history, position, queryChanged>>
     ELSE IF ~Falsy(activeImageId)
     THEN RouterReplace(ToString(imageId))
     ELSE RouterPush(ToString(imageId))
  /\ UNCHANGED <<activeImageId, images, storeVars, serviceVars, setupVars, passVars,
                 obsVars>>

OnClose ==
  /\ RouterReplace(NoImageId)
  /\ UNCHANGED <<activeImageId, images, storeVars, serviceVars, setupVars, passVars,
                 obsVars>>

\* The browser's back button; beforePopState lets the router handle it.
Back ==
  /\ position > 1
  /\ position' = position - 1
  /\ queryChanged' = TRUE
  /\ UNCHANGED <<history, activeImageId, images, storeVars, serviceVars, setupVars,
                 passVars, obsVars>>

\* useEffect(() => { ... setActiveImageId(...) }, [router?.query])
QueryEffect ==
  /\ queryChanged
  /\ activeImageId' = ParsedImageId(history[position])
  /\ queryChanged' = FALSE
  /\ UNCHANGED <<history, position, images, storeVars, serviceVars, setupVars,
                 passVars, obsVars>>

\* The lists of images with distinct ids.
RECURSIVE Lists(_)
Lists(ids) ==
  {<<>>} \cup UNION {{<<[id |-> i]>> \o l : l \in Lists(ids \ {i})} : i \in ids}

\* useImageViewerCtx({ images }): context.setImages(images)
SetImages(list) ==
  /\ images' = list
  /\ UNCHANGED <<activeImageId, history, position, queryChanged, storeVars,
                 serviceVars, setupVars, passVars, obsVars>>

InitViewer ==
  /\ article = [i \in Ids |-> IF i = 1 THEN FirstRow ELSE NoRow]
  /\ queue = {} /\ nextRid = 1 /\ ledger = {} /\ clock = 1
  /\ lastUpdatedAt = NULL
  /\ index = [n \in IndexNames |-> {}]
  /\ settings = [n \in IndexNames |-> DefaultSettings]
  /\ pending = <<>> /\ succeeded = {} /\ failed = {} /\ nextUid = 1
  /\ client = TRUE /\ settingsTasks = <<>> /\ setupCalls = 0
  /\ NoPass
  /\ NoViewer

NextViewer ==
  \/ \E imageId \in ImageIds \cup {null} : OnSetImage(imageId)
  \/ OnClose
  \/ Back
  \/ QueryEffect
  \/ \E list \in Lists(ImageIds) : SetImages(list)

SpecViewer == InitViewer /\ [][NextViewer]_vars

\* The imageId a URL of the page can carry: none, the text of an image id, or
\* a text that is not a number.
Queries == {NoImageId, "abc"} \cup {ToString(n) : n \in ImageIds}

\* A navigation to the page that is not made by the viewer's handlers (a link,
\* a typed URL): router.query changes and the effect on router.query runs.
Navigate(q) ==
  /\ RouterPush(q)
  /\ UNCHANGED <<activeImageId, images, storeVars, serviceVars, setupVars,
                 passVars, obsVars>>

NextUrl ==
  \/ NextViewer
  \/ \E q \in Queries : Navigate(q)

SpecUrl == InitViewer /\ [][NextUrl]_vars

----------------------------------------------------------------------------
\* Properties.

Terminal == succeeded \cup failed

\* The number of submitted sub-batches that hold a document of article i.
BatchesWith(i) ==
  Cardinality({k \in DOMAIN submitted : i \in DocIds(Range(submitted[k]))})

\* C1: once a step of a pass has thrown (setup, cleanup, a read, a submission,
\* the task wait timing out or finding a failed task), the stored watermark is
\* the one the pass started with and every dirty-queue row present when the
\* pass started is still there.
C1_FailedPassKeepsWatermarkAndQueue ==
  rejected => lastUpdatedAt = wmAtStart /\ queueAtStart \subseteq queue

C1_Witness ==
  /\ rejected /\ pc = "FAILED"
  /\ wmAtStart # NULL /\ queueAtStart # {} /\ passTasks # {}

\* C2: when the loop of a pass has ended normally, every article that no writer
\* touched during the pass, that is published and not violating, and that is
\* after the watermark of the run context or in the dirty-queue snapshot, has a
\* document in exactly one submitted sub-batch.
C2_Completeness ==
  pc \in {"SWAP", "COMMIT", "DONE"} =>
    \A i \in untouched :
      ( /\ article[i].st = "row"
        /\ article[i].publishedAt /\ ~article[i].tosViolation
        /\ \/ ctxLastUpdatedAt = NULL
           \/ article[i].createdAt > ctxLastUpdatedAt
           \/ article[i].updatedAt > ctxLastUpdatedAt
           \/ \E k \in DOMAIN queuedItems : queuedItems[k].id = i )
      => BatchesWith(i) = 1

\* C3 as stated: an incremental pass that follows a committed incremental pass,
\* with no write to store or queue between the end of the first and now,
\* submits nothing.
C3_NoChangeBetweenPasses ==
  (passNo >= 2 /\ indexName = INDEX_ID /\ quietBetween /\ ~chg) => submitted = <<>>

\* C3 amended: an incremental pass that follows a committed incremental pass,
\* with no write to store or queue since the first pass started, submits
\* nothing.
C3_Idempotence ==
  (passNo >= 2 /\ indexName = INDEX_ID /\ quietPrev /\ ~chg) => submitted = <<>>

C3_Witness ==
  /\ passNo >= 2 /\ indexName = INDEX_ID /\ quietPrev /\ ~chg
  /\ pc = "DONE" /\ Len(fetched) = 1 /\ queueAtStart = {} /\ envSteps > 0
  /\ \E i \in Existing : BaselineWhere(article[i])

\* C4 as stated: in a full-rebuild pass that started with no task pending, up
\* to the promotion and after a failure, the live index holds exactly the
\* documents it held when the pass started.
C4_LiveIndexUntouched ==
  (indexName = SWAP_INDEX_ID /\ settledAtStart /\ pc \in BeforePromotion \cup {"FAILED"})
    => index[INDEX_ID] = liveAtStart

\* C4 amended: in such a pass the live index gains and changes no document, and
\* the only documents it loses are those of ids the cleanup read from the
\* pending-deletion ledger.
C4_LiveIndexOnlyLosesLedgerDocs ==
  (indexName = SWAP_INDEX_ID /\ settledAtStart /\ pc \in BeforePromotion \cup {"FAILED"})
    => /\ index[INDEX_ID] \subseteq liveAtStart
       /\ DocIds(liveAtStart \ index[INDEX_ID]) \subseteq cleanupIds

C4_Witness ==
  /\ indexName = SWAP_INDEX_ID /\ settledAtStart /\ pc = "FAILED"
  /\ passTasks # {} /\ passTasks \subseteq succeeded
  /\ liveAtStart # {} /\ index[INDEX_ID] = liveAtStart
  /\ index[SWAP_INDEX_ID] # {}

\* C5: a page of n >= 1 documents is submitted in ceil(n / 25) sub-batches, all
\* of size 25 but the last, which has the remaining n - 25 * (ceil(n/25) - 1);
\* the sub-batches in order make up the page; one task is enqueued for each;
\* 57 documents go as 25, 25, 7.
C5_BatchingBoundary ==
  (pc = "FETCH" /\ ~rejected) =>
    LET n == Len(indexReadyRecords)
        c == (n + 24) \div 25
    IN /\ Len(submitted) = c
       /\ \A k \in 1..(c - 1) : Len(submitted[k]) = 25
       /\ Len(submitted[c]) = n - 25 * (c - 1)
       /\ Flatten(submitted) = indexReadyRecords
       /\ Len(pending) = c /\ Len(tasks) = c
       /\ n = 57 => [k \in 1..c |-> Len(submitted[k])] = <<25, 25, 7>>

C5_Witness ==
  /\ pc = "FETCH" /\ Len(indexReadyRecords) = 57
  /\ Len(submitted) = 3 /\ Len(submitted[3]) = 7

C7_DeletionCorrectness ==
  [][ (pc \in {"CLEANUP", "CLEANUP_WAIT"} /\ pc' = "DRAIN") =>
        /\ ledgerAtCleanup' \cap DocIds(index'[INDEX_ID]) = {}
        /\ ledgerAtCleanup' \cap ledger' = {}
    ]_vars

C7_Witness ==
  /\ pc = "DRAIN" /\ ledgerAtCleanup # {}
  /\ ledgerAtCleanup \cap DocIds(liveAtStart) # {}
  /\ ledgerAtCleanup \cap DocIds(index[INDEX_ID]) = {}
  /\ ledgerAtCleanup \cap ledger = {}

LateRows == {r \in queue : r.rid >= ridAtDrain}

C10_BaselineAlwaysApplied ==
  \A d \in Range(Flatten(submitted)) \cup UNION {Range(t.docs) : t \in Range(pending)} :
    d.publishedAt /\ ~d.tosViolation

C10_Witness ==
  /\ pc = "WAIT" /\ ctxLastUpdatedAt # NULL
  /\ \E i \in untouched :
       /\ ~BaselineWhere(article[i])
       /\ i \in Range(QueuedIds)
       /\ article[i].updatedAt > ctxLastUpdatedAt

\* C11: a call of onIndexSetup issues a settings task for an attribute list
\* only when the list the index has at the call is not the desired one.
C11_SettingsTaskOnlyWhenDifferent ==
  [][ setupCalls' # setupCalls =>
        \A k \in DOMAIN settingsTasks' :
          settings[settingsTasks'[k].indexUid][settingsTasks'[k].attr]
            # DesiredSettings[settingsTasks'[k].attr]
    ]_vars

\* The phase of the orchestrator a step of the pass belongs to.
Phase(p) ==
  CASE p = "SETUP" -> "SETUP"
    [] p \in {"CLEANUP", "CLEANUP_WAIT"} -> "CLEANUP"
    [] p \in {"DRAIN", "FETCH", "SUBMIT", "WAIT"} -> "SYNC_LOOP"
    [] p = "SWAP" -> "SWAP"
    [] p = "COMMIT" -> "COMMIT_WATERMARK"
    [] OTHER -> p

AllTimeRows(i) == SelectSeq(article[i].metrics, LAMBDA m : m.timeframe = AllTime)

\* C13: the document made of an article has the counters of the article's
\* all-time metrics row as its metrics, every counter with value zero when the
\* article has no such row, and the names of the article's tags, in their
\* order, as its tags.
C13_TransformMetricsAndTags ==
  \A p \in DOMAIN fetched : \A k \in DOMAIN fetched[p] :
    LET d == fetched[p][k] IN
      /\ DOMAIN d.metrics = MetricFields
      /\ \A f \in MetricFields :
           d.metrics[f] = IF AllTimeRows(d.id) = <<>> THEN 0
                          ELSE AllTimeRows(d.id)[1][f]
      /\ Len(d.tags) = Len(article[d.id].tags)
      /\ \A j \in DOMAIN d.tags : d.tags[j] = article[d.id].tags[j].tag.name

\* C14: a step removes pending-deletion rows only at the end of the cleanup's
\* wait, when the delete-by-id task submitted for them has succeeded; the rows
\* removed are rows of that task and no document of theirs is left in the
\* index 'articles'; and a cleanup that fails removes no row.
C14_LedgerRemovedAfterDeleteSucceeded ==
  [][ /\ ledger \ ledger' # {} =>
           /\ pc = "CLEANUP_WAIT" /\ pc' = "DRAIN"
           /\ cleanupTask \in succeeded
           /\ \A t \in Range(pending) : t.uid # cleanupTask
           /\ ledger \ ledger' \subseteq cleanupIds
           /\ (ledger \ ledger') \cap DocIds(index'[INDEX_ID]) = {}
      /\ (pc \in {"CLEANUP", "CLEANUP_WAIT"} /\ pc' = "FAILED") =>
           /\ ledger' = ledger
           /\ ledgerAtCleanup' \subseteq ledger'
    ]_vars

C14_Witness ==
  /\ pc = "FETCH" /\ passNo = 2 /\ cleanupIds # {}
  /\ cleanupTask \in succeeded /\ cleanupIds \cap ledger = {}
  /\ cleanupIds \cap DocIds(liveAtStart) # {}
  /\ failed # {}

\* C15: the rows the cleanup of a pass reads are exactly the pending-deletion
\* rows recorded for 'articles' at that moment, whatever index the pass runs
\* against, and the deletes go to the index 'articles'.
C15_CleanupReadsLogicalIndex ==
  [][ (pc = "CLEANUP" /\ pc' \in {"CLEANUP_WAIT", "DRAIN"}) =>
        /\ cleanupIds' = ledger
        /\ pc' = "CLEANUP_WAIT" =>
             /\ pending'[Len(pending')].indexUid = "articles"
             /\ pending'[Len(pending')].ids = ledger
    ]_vars

C15_Witness ==
  /\ pc = "CLEANUP_WAIT" /\ indexName = "articles_NEW" /\ passNo = 2
  /\ wmAtStart # NULL /\ cleanupIds # {} /\ cleanupIds = ledger

\* C16: the list of dirty-queue ids in the fetch filter of a pass holds no id
\* twice.
C16_DirtyIdsDeduplicated ==
  (pc \in {"FETCH", "SUBMIT"} /\ ~WhereOr.undefined) =>
    \A j, k \in DOMAIN WhereOr.in : j # k => WhereOr.in[j] # WhereOr.in[k]

Running == pc \notin {"idle", "DONE", "FAILED"}

\* C17: over a store that is not written, a pass ends its loop at the first
\* empty page and reads and submits nothing after it, reads at most one page
\* more than there are rows, polls its tasks at most MaxRetries times more once
\* they are found pending, and every started pass gets to DONE or to FAILED.
C17_PassTerminates ==
  /\ [][ /\ (pc = "FETCH" /\ Len(fetched') > Len(fetched)
               /\ fetched'[Len(fetched')] = <<>>) => pc' = "WAIT"
         /\ pc \in {"WAIT", "SWAP", "COMMIT"} =>
              fetched' = fetched /\ submitted' = submitted
       ]_vars
  /\ [](Running => Len(fetched) <= MaxId + 1 /\ retries <= MaxRetries)
  /\ (Running ~> pc \in {"DONE", "FAILED"})

C17_Witness ==
  /\ pc = "FAILED" /\ retries = MaxRetries /\ Len(fetched) = MaxId + 1
  /\ articlesTasks # <<>> /\ Range(articlesTasks) \cap failed = {}
  /\ ~(Range(articlesTasks) \subseteq succeeded)

\* C18: a page read that returns no page and a submission that does not
\* enqueue every sub-batch of the page end the pass in FAILED; once a step of a
\* pass has thrown the pass stays in FAILED, reads no page and submits no
\* sub-batch; and a pass that is done has submitted every document it fetched
\* and recorded every task it enqueued.
C18_FailureAbortsPass ==
  /\ [][ /\ (pc = "FETCH" /\ pc' # pc /\ fetched' = fetched) => pc' = "FAILED"
         /\ (pc = "SUBMIT" /\ pc' # pc /\ Flatten(submitted') # Flatten(fetched))
              => pc' = "FAILED"
         /\ (rejected /\ passNo' = passNo) =>
              pc' = "FAILED" /\ fetched' = fetched /\ submitted' = submitted
       ]_vars
  /\ [](rejected => pc = "FAILED")
  /\ [](pc = "DONE" =>
         /\ Flatten(fetched) = Flatten(submitted)
         /\ passTasks = Range(articlesTasks))

C18_Witness ==
  /\ pc = "FAILED" /\ rejected
  /\ Len(fetched) = 2 /\ fetched[2] # <<>> /\ submitted = <<fetched[1]>>
  /\ articlesTasks # <<>>

\* The articles the filter of the running pass lets through: published, not
\* violating and, when the run context has a watermark, created after it,
\* updated after it or in the dirty-queue snapshot.
Eligible ==
  {i \in Ids :
     /\ article[i].st = "row"
     /\ article[i].publishedAt /\ ~article[i].tosViolation
     /\ \/ ctxLastUpdatedAt = NULL
        \/ article[i].createdAt > ctxLastUpdatedAt
        \/ article[i].updatedAt > ctxLastUpdatedAt
        \/ \E k \in DOMAIN queuedItems : queuedItems[k].id = i}

\* C19: the page a read returns holds the documents of exactly the eligible
\* articles whose place among the eligible ones is within the page after the
\* offset; and a pass without a watermark during which nothing was written has,
\* when its loop has ended, submitted every published, non-violating article.
C19_FetchFilter ==
  /\ [][ Len(fetched') > Len(fetched) =>
           DocIds(Range(fetched'[Len(fetched')])) =
             {i \in Eligible :
                LET place == Cardinality({j \in Eligible : j <= i})
                IN offset < place /\ place <= offset + READ_BATCH_SIZE}
       ]_vars
  /\ []((pc \in {"SWAP", "COMMIT", "DONE"} /\ ctxLastUpdatedAt = NULL /\ ~chg) =>
         \A i \in Existing :
           (article[i].publishedAt /\ ~article[i].tosViolation)
             => i \in DocIds(Range(Flatten(submitted))))

C19_Witness ==
  /\ pc = "DONE" /\ ctxLastUpdatedAt # NULL /\ submitted # <<>> /\ queuedItems # <<>>
  /\ \E i \in untouched :
       /\ BaselineWhere(article[i])
       /\ article[i].createdAt <= ctxLastUpdatedAt
       /\ article[i].updatedAt = ctxLastUpdatedAt
       /\ i \notin Range(QueuedIds)
       /\ i \notin DocIds(Range(Flatten(submitted)))

\* C20: without a configured client, the first step of onIndexUpdate is its
\* return, to where the processor goes on after a pass that succeeded (the
\* swap in a full rebuild, else the commit) and with nothing thrown; no pass
\* is ever in the cleanup or in the loop, none reads the ledger, the dirty
\* queue or a page or submits a document; and neither a pass nor a call of
\* onIndexSetup enqueues a task or changes an index or its settings.
C20_NoClientReturnsAsSuccess ==
  /\ [][ (pc = "SETUP" /\ pc' # pc) =>
           /\ pc' = IF indexName = SWAP_INDEX_ID THEN "SWAP" ELSE "COMMIT"
           /\ ~rejected'
       ]_vars
  /\ [](/\ pc \in {"idle", "SETUP", "SWAP", "COMMIT", "DONE", "FAILED"}
        /\ queuedItems = <<>> /\ fetched = <<>> /\ submitted = <<>>
        /\ cleanupIds = {} /\ ledgerAtCleanup = {} /\ passTasks = {}
        /\ settingsTasks = <<>> /\ pending = <<>> /\ nextUid = 1
        /\ succeeded = {} /\ failed = {}
        /\ index = [n \in IndexNames |-> {}]
        /\ settings = [n \in IndexNames |-> DefaultSettings])

C20_Witness ==
  /\ ~client /\ pc = "DONE" /\ ~rejected /\ indexName = INDEX_ID
  /\ lastUpdatedAt # NULL /\ setupCalls > 0
  /\ queueAtStart # {} /\ ledger # {}
  /\ \E i \in untouched : BaselineWhere(article[i])
  /\ index[INDEX_ID] = {}

\* C21: a step that writes an imageId into the history (a selection) replaces
\* the current entry when the query of that entry already has an imageId, and
\* pushes one entry after it when the query has none.
C21_SelectionReplacesOrPushesOnce ==
  [][ (history' # history /\ history'[position'] # NoImageId) =>
        IF history[position] # NoImageId
        THEN position' = position /\ Len(history') = Len(history)
        ELSE /\ position' = position + 1
             /\ SubSeq(history', 1, position) = SubSeq(history, 1, position)
    ]_vars

\* C22: nextImageId is the id of the element right after the active image in
\* the list and prevImageId the id of the element right before it; each is
\* null when there is no such element, when the active id is not in the list
\* or when no image is active; neither equals the active id and neither is an
\* id outside the list.
C22_NextPrevAdjacent ==
  LET places == {p \in DOMAIN images : images[p].id = activeImageId}
      listed == {images[p].id : p \in DOMAIN images}
  IN /\ activeImageId # 0
     /\ (activeImageId = null \/ places = {}) =>
          NextImageId = null /\ PrevImageId = null
     /\ \A p \in places :
          /\ NextImageId = IF p < Len(images) THEN images[p + 1].id ELSE null
          /\ PrevImageId = IF p > 1 THEN images[p - 1].id ELSE null
     /\ NextImageId = null \/ (NextImageId # activeImageId /\ NextImageId \in listed)
     /\ PrevImageId = null \/ (PrevImageId # activeImageId /\ PrevImageId \in listed)

C22_Witness ==
  /\ Len(images) = 3
  /\ activeImageId = images[2].id
  /\ ~queryChanged
  /\ NextImageId = images[3].id
  /\ PrevImageId = images[1].id
====
